---- MODULE Spec2Model ----
(***************************************************************************)
(* shtym: profile resolution, processor construction and command dispatch. *)
(*                                                                         *)
(* A run of the model is either a series of get calls on one               *)
(* MultiSourceProfileRepository, or one invocation of the tool: a          *)
(* processor is built for a profile name and process_command runs the      *)
(* child command through it.  SpecEnv runs the lookups and                 *)
(* LLMProfile.from_env under every process environment.                    *)
(*                                                                         *)
(* Exceptions are modelled as values: every operator that models a         *)
(* function returns a record whose exc field is "none" on normal return    *)
(* and the name of the exception class otherwise.                          *)
(***************************************************************************)
EXTENDS Integers, Sequences, FiniteSets, TLC

\* ---------------------------------------------------------------- bounds
\* Longest list of repositories handed to MultiSourceProfileRepository
\* (besides the three-source default wiring, which is always included).
MaxSources == 2
\* Most get calls made on one repository in a series.
MaxGets == 2

\* ---------------------------------------------------------------- values
DEFAULT_PROFILE_NAME == "default"

\* Profile names a caller may ask for.
Names == {"default", "p", "nonexistent"}
\* Profile names a profiles.toml file may define.
FileNames == {"default", "p"}

\* LLMSettings(): the field defaults of the settings model.
LLMSettings == [model_name |-> "llama3.2:3b", base_url |-> "http://localhost:11434"]
\* The [profiles.p.llm_settings] table a profiles.toml file writes out in full.
WrittenSettings == [model_name |-> "file-model", base_url |-> "http://file-host:11434"]

\* A profile object is identified by the repository (position in the list)
\* that produced it and the name it was stored under; it carries its
\* llm_settings.  LLMProfile(...) with llm_settings left out takes
\* LLMSettings() through the field's default_factory.
LLMProfile(origin, name, llm_settings) ==
    [origin |-> origin, name |-> name, llm_settings |-> llm_settings]
NoProfile == LLMProfile(0, "", [model_name |-> "", base_url |-> ""])

\* The process environment: each variable is unset (<<>>) or set to a string
\* (<<value>>), possibly an empty or whitespace-only one.
ModelValues == {<<>>, <<"">>, <<"   ">>, <<"llama2">>}
BaseUrlValues == {<<>>, <<"">>, <<"   ">>, <<"http://remote:11434">>}
Environments == [SHTYM_LLM_SETTINGS__MODEL : ModelValues,
                 SHTYM_LLM_SETTINGS__BASE_URL : BaseUrlValues]
NoEnvironment == [SHTYM_LLM_SETTINGS__MODEL |-> <<>>, SHTYM_LLM_SETTINGS__BASE_URL |-> <<>>]
\* os.environ.get(key, default)
os_environ_get(value, default) == IF value = <<>> THEN default ELSE value[1]

\* LLMProfile.from_env: the settings are the two variables as they stand,
\* LLMSettings() defaults for a variable that is not set.
LLMProfile_from_env(environment) ==
    LLMProfile(0, "",
        [model_name |-> os_environ_get(environment.SHTYM_LLM_SETTINGS__MODEL,
                                       LLMSettings.model_name),
         base_url |-> os_environ_get(environment.SHTYM_LLM_SETTINGS__BASE_URL,
                                     LLMSettings.base_url)])

\* What is on disk at a FileReader's file_path.
\*   missing    - no such file          unreadable - permission denied
\*   malformed  - not a valid profiles document
\*   valid      - a profiles table defining exactly the names in `names`;
\*                [profiles.default] leaves llm_settings out, [profiles.p]
\*                writes both of its fields
FileStates ==
    {[state |-> s, names |-> {}] : s \in {"missing", "unreadable", "malformed"}}
        \cup {[state |-> "valid", names |-> ns] : ns \in SUBSET FileNames}

\* A repository instance: a FileBasedProfileRepository over a file, or the
\* BuiltinDefaultProfileRepository.
FileRepositories == {[kind |-> "file", file |-> f] : f \in FileStates}
BuiltinRepository == [kind |-> "builtin", file |-> [state |-> "valid", names |-> {}]]
Repositories == FileRepositories \cup {BuiltinRepository}

\* FileBasedProfileRepository.__init__: _profiles is None, nothing read yet.
\* reads and parses count the calls of read_str and parse; readExc is how the
\* last read_str call ended ("unread" before the first).
\* parseExc is how the last parse call ended ("unparsed" before the first).
FreshInstance ==
    [loaded |-> FALSE, profiles |-> {}, reads |-> 0, parses |-> 0, readExc |-> "unread",
     parseExc |-> "unparsed"]

\* -------------------------------------------------------------- file I/O
\* FileReader.read_str: opens the path and reads it; a failure of open()
\* leaves as the OS error it is.
FileReader_read_str(file) ==
    IF file.state \in {"missing", "unreadable"}
    THEN [exc |-> "OSError", content |-> file]
    ELSE [exc |-> "none", content |-> file]

\* The ways a readable document can fail to be a profiles document, in the
\* order the parser meets them:
\*   malformed           - TOML syntax error
\*   no_profiles_table   - no top-level `profiles` key
\*   profiles_not_table  - `profiles` is not a table
\*   unknown_type        - a profile with an unrecognized `type`
\*   invalid_base_url    - a profile failing schema validation
Flaws == {"malformed", "no_profiles_table", "profiles_not_table", "unknown_type",
          "invalid_base_url"}
FlawedDocuments == {[state |-> s, names |-> {}] : s \in Flaws}
\* Every file content the parser may be given.
Documents == FlawedDocuments \cup {f \in FileStates : f.state = "valid"}

\* How parse ends on a flawed document.
ParseFailure(exc, cause) == [exc |-> exc, cause |-> cause, profiles |-> {}]

\* parse that lets the validation exception of the profile model through.
TOMLProfileParser_parse_raw_validation(content) ==
    IF content.state = "malformed" THEN ParseFailure("ProfileParserError", "syntax")
    ELSE IF content.state = "no_profiles_table"
    THEN ParseFailure("ProfileParserError", "profiles missing")
    ELSE IF content.state = "profiles_not_table"
    THEN ParseFailure("ProfileParserError", "profiles not a table")
    ELSE IF content.state = "unknown_type"
    THEN ParseFailure("ProfileParserError", "unknown type")
    ELSE IF content.state = "invalid_base_url"
    THEN ParseFailure("ValidationError", "validation")
    ELSE [exc |-> "none", cause |-> "", profiles |-> content.names]

\* parse that takes a profiles table without entries for a missing one.
TOMLProfileParser_parse_rejects_empty(content) ==
    IF content.state \in Flaws
    THEN ParseFailure("ProfileParserError", content.state)
    ELSE IF content.names = {}
    THEN ParseFailure("ProfileParserError", "profiles missing")
    ELSE [exc |-> "none", cause |-> "", profiles |-> content.names]

\* TOMLProfileParser.parse: load the TOML text, take its `profiles` table,
\* build one Profile per entry by its `type`; each failure on the way is
\* raised as ProfileParserError.  The result is the mapping name -> Profile
\* (here: the set of names).
TOMLProfileParser_parse(content) ==
    IF content.state = "malformed" THEN ParseFailure("ProfileParserError", "syntax")
    ELSE IF content.state = "no_profiles_table"
    THEN ParseFailure("ProfileParserError", "profiles missing")
    ELSE IF content.state = "profiles_not_table"
    THEN ParseFailure("ProfileParserError", "profiles not a table")
    ELSE IF content.state = "unknown_type"
    THEN ParseFailure("ProfileParserError", "unknown type")
    ELSE IF content.state = "invalid_base_url"
    THEN ParseFailure("ProfileParserError", "validation")
    ELSE [exc |-> "none", cause |-> "", profiles |-> content.names]

\* The llm_settings table of [profiles.<name>] as the document writes it:
\* each key left out (<<>>) or written with a string (<<value>>).
WrittenTable(name) ==
    IF name = "p"
    THEN [model_name |-> <<WrittenSettings.model_name>>,
          base_url |-> <<WrittenSettings.base_url>>]
    ELSE [model_name |-> <<>>, base_url |-> <<>>]

\* Settings validation with base_url as a URL type: the URL is normalised,
\* a URL without a path comes back with the path "/".
LLMSettings_model_validate_url(table) ==
    [model_name |-> IF table.model_name = <<>> THEN LLMSettings.model_name
                    ELSE table.model_name[1],
     base_url |-> IF table.base_url = <<>> THEN LLMSettings.base_url
                  ELSE table.base_url[1] \o "/"]

\* LLMSettings(**table): model_name and base_url are both `str` fields, a
\* written string is kept as it is and a key left out takes the field's
\* default.
LLMSettings_model_validate(table) ==
    [model_name |-> IF table.model_name = <<>> THEN LLMSettings.model_name
                    ELSE table.model_name[1],
     base_url |-> IF table.base_url = <<>> THEN LLMSettings.base_url
                  ELSE table.base_url[1]]

\* The Profile object the parser built for `name`: LLMProfile(**data), so
\* a table without llm_settings gets LLMSettings().
ParsedProfile(k, name) ==
    LLMProfile(k, name, LLMSettings_model_validate(WrittenTable(name)))

\* ---------------------------------------------------------- repositories
\* FileBasedProfileRepository.profiles (property): lazy load, memoized in
\* _profiles; FileReadError and ProfileParserError leave an empty mapping,
\* any other exception propagates and leaves _profiles as None.
FileBasedProfileRepository_profiles(file, inst) ==
    IF inst.loaded THEN [exc |-> "none", inst |-> inst]
    ELSE LET r == FileReader_read_str(file)
             read == [inst EXCEPT !.reads = @ + 1, !.readExc = r.exc]
         IN  IF r.exc = "FileReadError"
             THEN [exc |-> "none", inst |-> [read EXCEPT !.loaded = TRUE, !.profiles = {}]]
             ELSE IF r.exc # "none"
             THEN [exc |-> r.exc, inst |-> read]
             ELSE LET p == TOMLProfileParser_parse(r.content)
                      parsed == [read EXCEPT !.parses = @ + 1, !.parseExc = p.exc]
                  IN  IF p.exc = "ProfileParserError"
                      THEN [exc |-> "none",
                            inst |-> [parsed EXCEPT !.loaded = TRUE, !.profiles = {}]]
                      ELSE IF p.exc # "none"
                      THEN [exc |-> p.exc, inst |-> parsed]
                      ELSE [exc |-> "none",
                            inst |-> [parsed EXCEPT !.loaded = TRUE,
                                                    !.profiles = p.profiles]]

\* get with a default profile of the repository's own: a name that is not
\* in the mapping is still answered when it is "default".
FileBasedProfileRepository_get_own_default(file, inst, k, name) ==
    LET a == FileBasedProfileRepository_profiles(file, inst)
    IN  IF a.exc # "none"
        THEN [exc |-> a.exc, errName |-> "", profile |-> NoProfile, inst |-> a.inst]
        ELSE IF name \in a.inst.profiles
        THEN [exc |-> "none", errName |-> "",
              profile |-> ParsedProfile(k, name), inst |-> a.inst]
        ELSE IF name = "default"
        THEN [exc |-> "none", errName |-> "",
              profile |-> LLMProfile(k, name, LLMSettings), inst |-> a.inst]
        ELSE [exc |-> "ProfileNotFoundError", errName |-> name,
              profile |-> NoProfile, inst |-> a.inst]

\* FileBasedProfileRepository.get
FileBasedProfileRepository_get(file, inst, k, name) ==
    LET a == FileBasedProfileRepository_profiles(file, inst)
    IN  IF a.exc # "none"
        THEN [exc |-> a.exc, errName |-> "", profile |-> NoProfile, inst |-> a.inst]
        ELSE IF name \in a.inst.profiles
        THEN [exc |-> "none", errName |-> "",
              profile |-> ParsedProfile(k, name), inst |-> a.inst]
        ELSE [exc |-> "ProfileNotFoundError", errName |-> name,
              profile |-> NoProfile, inst |-> a.inst]

\* get without the name test: every name gets the built-in profile.
BuiltinDefaultProfileRepository_get_any_name(inst, k, name) ==
    [exc |-> "none", errName |-> "",
     profile |-> LLMProfile(k, name, LLMSettings), inst |-> inst]

\* BuiltinDefaultProfileRepository.get
BuiltinDefaultProfileRepository_get(inst, k, name) ==
    IF name = "default"
    THEN [exc |-> "none", errName |-> "",
          profile |-> LLMProfile(k, name, LLMSettings), inst |-> inst]
    ELSE [exc |-> "ProfileNotFoundError", errName |-> name,
          profile |-> NoProfile, inst |-> inst]

\* repository.get(name) on the k-th repository of the list (dynamic dispatch).
Repository_get(repository, inst, k, name) ==
    IF repository.kind = "file"
    THEN FileBasedProfileRepository_get(repository.file, inst, k, name)
    ELSE BuiltinDefaultProfileRepository_get(inst, k, name)

\* The loop without the early return: a later repository that has the name
\* overrides an earlier one.
RECURSIVE MultiSourceLoop_lastWins(_, _, _, _, _)
MultiSourceLoop_lastWins(repositories, insts, name, k, queried) ==
    IF k > Len(repositories)
    THEN [exc |-> "ProfileNotFoundError", errName |-> name, profile |-> NoProfile,
          insts |-> insts, queried |-> queried]
    ELSE LET r == Repository_get(repositories[k], insts[k], k, name)
             insts2 == [insts EXCEPT ![k] = r.inst]
             queried2 == Append(queried, [repo |-> k, name |-> name])
             rest == MultiSourceLoop_lastWins(repositories, insts2, name, k + 1, queried2)
         IN  IF r.exc = "ProfileNotFoundError" THEN rest
             ELSE IF r.exc = "none" /\ rest.exc = "none" THEN rest
             ELSE IF r.exc = "none"
             THEN [exc |-> "none", errName |-> "", profile |-> r.profile,
                   insts |-> rest.insts, queried |-> rest.queried]
             ELSE [exc |-> r.exc, errName |-> r.errName, profile |-> r.profile,
                   insts |-> insts2, queried |-> queried2]

\* The loop without the except clause: the first repository's
\* ProfileNotFoundError ends the call.
MultiSourceLoop_firstOnly(repositories, insts, name, k, queried) ==
    IF k > Len(repositories)
    THEN [exc |-> "ProfileNotFoundError", errName |-> name, profile |-> NoProfile,
          insts |-> insts, queried |-> queried]
    ELSE LET r == Repository_get(repositories[k], insts[k], k, name)
         IN  [exc |-> r.exc, errName |-> r.errName, profile |-> r.profile,
              insts |-> [insts EXCEPT ![k] = r.inst],
              queried |-> Append(queried, [repo |-> k, name |-> name])]

\* The loop of MultiSourceProfileRepository.get from repository k on:
\* ProfileNotFoundError moves on to the next repository, a returned profile
\* or any other exception ends the call; falling off the end raises
\* ProfileNotFoundError(name).  `queried` logs each repository.get call.
RECURSIVE MultiSourceLoop(_, _, _, _, _)
MultiSourceLoop(repositories, insts, name, k, queried) ==
    IF k > Len(repositories)
    THEN [exc |-> "ProfileNotFoundError", errName |-> name, profile |-> NoProfile,
          insts |-> insts, queried |-> queried]
    ELSE LET r == Repository_get(repositories[k], insts[k], k, name)
             insts2 == [insts EXCEPT ![k] = r.inst]
             queried2 == Append(queried, [repo |-> k, name |-> name])
         IN  IF r.exc = "ProfileNotFoundError"
             THEN MultiSourceLoop(repositories, insts2, name, k + 1, queried2)
             ELSE [exc |-> r.exc, errName |-> r.errName, profile |-> r.profile,
                   insts |-> insts2, queried |-> queried2]

\* MultiSourceProfileRepository.get
MultiSourceProfileRepository_get(repositories, insts, name) ==
    MultiSourceLoop(repositories, insts, name, 1, <<>>)

\* ----------------------------------------------------------- processors
\* A processor object: its class and, for a FallbackProcessor, the class of
\* the processor it wraps.
PassThroughProcessor == [kind |-> "PassThroughProcessor", wrapped |-> "none"]
\* domain.processor.LLMProcessor(llm_client)
LLMProcessor == [kind |-> "LLMProcessor", wrapped |-> "none"]
\* What a ProcessorFactory.create returns: some Processor implementation
\* whose process either returns a text or raises ProcessingError.
CreatedProcessor == [kind |-> "CreatedProcessor", wrapped |-> "none"]
FallbackProcessor(processor) == [kind |-> "FallbackProcessor", wrapped |-> processor.kind]
NoProcessor == [kind |-> "none", wrapped |-> "none"]

\* CommandExecution / the (command, stdout, stderr) triple given to process.
CommandExecution(command, stdout, stderr) ==
    [command |-> command, stdout |-> stdout, stderr |-> stderr]

NoExecution == CommandExecution(<<>>, "", "")

\* ' '.join(command)
RECURSIVE Join(_)
Join(command) ==
    IF command = <<>> THEN ""
    ELSE IF Len(command) = 1 THEN command[1]
    ELSE command[1] \o " " \o Join(Tail(command))

\* A prompt template is a sequence of pieces: literal text and the
\* placeholders.
Placeholders == {"$command", "$stdout", "$stderr"}
\* The two prompt templates of a profile (spec 3); both use every
\* placeholder.
ProfileTemplates ==
    [system_prompt_template |->
         <<"Cmd: ", "$command", ", Out: ", "$stdout", ", Err: ", "$stderr">>,
     user_prompt_template |->
         <<"Again - Cmd: ", "$command", ", Out: ", "$stdout", ", Err: ", "$stderr">>]

\* Template substitution: each placeholder is replaced by its value, in one
\* pass; the values are not looked at again.
RECURSIVE Template_substitute(_, _)
Template_substitute(template, execution) ==
    IF template = <<>> THEN ""
    ELSE LET piece == Head(template)
             text == IF piece = "$command" THEN Join(execution.command)
                     ELSE IF piece = "$stdout" THEN execution.stdout
                     ELSE IF piece = "$stderr" THEN execution.stderr
                     ELSE piece
         IN  text \o Template_substitute(Tail(template), execution)

\* The keyword arguments LLMProcessor.process gives llm_client.chat: a
\* system prompt written in the method, with the joined command in it, the
\* raw stdout as the user prompt and the raw stderr as the error message.
LLMProcessor_chat_kwargs(execution) ==
    [system_prompt |->
         "Your task is to summarize and distill the essential information"
             \o " from the command '" \o Join(execution.command) \o "':\n\n"
             \o "The provided user message is the raw output of the command so it may"
             \o " contain extraneous information, errors, or formatting artifacts."
             \o " Your goal is to extract the most relevant and accurate information."
             \o " Also, error will be provided if any as a separate user message.",
     user_prompt |-> execution.stdout,
     error_message |-> execution.stderr]

\* The keyword arguments a factory-built LLM processor gives chat: the two
\* templates of its profile with the placeholders substituted.
CreatedProcessor_chat_kwargs(execution) ==
    [system_prompt |-> Template_substitute(ProfileTemplates.system_prompt_template,
                                           execution),
     user_prompt |-> Template_substitute(ProfileTemplates.user_prompt_template,
                                         execution)]

\* What left a process call that raised: the exception class, its cause
\* and the execution it carries.
Raised(exc, cause, execution) == [exc |-> exc, cause |-> cause, execution |-> execution]
NoRaise == Raised("none", "none", NoExecution)

\* A process that loses the text.
PassThroughProcessor_process_blank(execution) ==
    [exc |-> "none", output |-> "", chatCalls |-> 0, processCalls |-> 0,
     chat |-> <<>>, raised |-> NoRaise]

\* PassThroughProcessor.process
PassThroughProcessor_process(execution) ==
    [exc |-> "none", output |-> execution.stdout, chatCalls |-> 0, processCalls |-> 0,
     chat |-> <<>>, raised |-> NoRaise]

\* LLMProcessor.process without the except clause: a failing chat call leaves
\* process as the exception it is.
LLMProcessor_process_unguarded(execution, reply) ==
    IF reply.ok
    THEN [exc |-> "none", output |-> reply.text, chatCalls |-> 1, processCalls |-> 0,
          chat |-> <<LLMProcessor_chat_kwargs(execution)>>, raised |-> NoRaise]
    ELSE [exc |-> reply.exc, output |-> "", chatCalls |-> 1, processCalls |-> 0,
          chat |-> <<LLMProcessor_chat_kwargs(execution)>>,
          raised |-> Raised(reply.exc, "none", NoExecution)]

\* LLMProcessor.process with "except ConnectionError": any other exception
\* of the chat call leaves process.
LLMProcessor_process_connection_only(execution, reply) ==
    IF reply.ok
    THEN [exc |-> "none", output |-> reply.text, chatCalls |-> 1, processCalls |-> 0,
          chat |-> <<LLMProcessor_chat_kwargs(execution)>>, raised |-> NoRaise]
    ELSE IF reply.exc = "ConnectionError"
    THEN [exc |-> "none", output |-> execution.stdout, chatCalls |-> 1, processCalls |-> 0,
          chat |-> <<LLMProcessor_chat_kwargs(execution)>>, raised |-> NoRaise]
    ELSE [exc |-> reply.exc, output |-> "", chatCalls |-> 1, processCalls |-> 0,
          chat |-> <<LLMProcessor_chat_kwargs(execution)>>,
          raised |-> Raised(reply.exc, "none", NoExecution)]

\* LLMProcessor.process: one llm_client.chat call; any exception of it is
\* swallowed and the raw stdout returned.  `reply` is what the call does:
\* reply.ok - it returns reply.text; otherwise it raises reply.exc.
LLMProcessor_process(execution, reply) ==
    IF reply.ok
    THEN [exc |-> "none", output |-> reply.text, chatCalls |-> 1, processCalls |-> 0,
          chat |-> <<LLMProcessor_chat_kwargs(execution)>>, raised |-> NoRaise]
    ELSE [exc |-> "none", output |-> execution.stdout, chatCalls |-> 1, processCalls |-> 0,
          chat |-> <<LLMProcessor_chat_kwargs(execution)>>, raised |-> NoRaise]

\* Processor.process of a factory-built processor (protocol contract).
CreatedProcessor_process(execution, reply) ==
    IF reply.ok
    THEN [exc |-> "none", output |-> reply.text, chatCalls |-> 1, processCalls |-> 0,
          chat |-> <<CreatedProcessor_chat_kwargs(execution)>>, raised |-> NoRaise]
    ELSE [exc |-> "ProcessingError", output |-> "", chatCalls |-> 1, processCalls |-> 0,
          chat |-> <<CreatedProcessor_chat_kwargs(execution)>>,
          raised |-> Raised("ProcessingError", reply.exc, execution)]

\* process of a processor that is not a decorator.
Inner_process(kind, execution, reply) ==
    IF kind = "PassThroughProcessor" THEN PassThroughProcessor_process(execution)
    ELSE IF kind = "LLMProcessor" THEN LLMProcessor_process(execution, reply)
    ELSE CreatedProcessor_process(execution, reply)

\* FallbackProcessor.process that tries the wrapped processor a second time
\* before giving up.
FallbackProcessor_process_retry(wrapped, execution, reply) ==
    LET r == Inner_process(wrapped, execution, reply)
    IN  IF r.exc = "ProcessingError"
        THEN [exc |-> "none", output |-> execution.stdout,
              chatCalls |-> 2 * r.chatCalls, processCalls |-> 2,
              chat |-> r.chat \o r.chat, raised |-> r.raised]
        ELSE [r EXCEPT !.processCalls = 1]

\* FallbackProcessor.process that puts the raw stdout in place of whatever
\* the wrapped processor did.
FallbackProcessor_process_always_stdout(wrapped, execution, reply) ==
    LET r == Inner_process(wrapped, execution, reply)
    IN  [exc |-> "none", output |-> execution.stdout,
         chatCalls |-> r.chatCalls, processCalls |-> 1,
         chat |-> r.chat, raised |-> r.raised]

\* FallbackProcessor.process: delegate to the wrapped processor, substitute
\* the raw stdout when it raises ProcessingError.
FallbackProcessor_process(wrapped, execution, reply) ==
    LET r == Inner_process(wrapped, execution, reply)
    IN  IF r.exc = "ProcessingError"
        THEN [exc |-> "none", output |-> execution.stdout,
              chatCalls |-> r.chatCalls, processCalls |-> 1,
              chat |-> r.chat, raised |-> r.raised]
        ELSE [r EXCEPT !.processCalls = 1]

\* PassThroughProcessor.is_available
PassThroughProcessor_is_available == TRUE
\* LLMProcessor.is_available: what the client's is_available() answers.
LLMProcessor_is_available(answer) == answer
\* processor.is_available() (dynamic dispatch); a FallbackProcessor and a
\* factory-built processor pass on the answer of the client underneath.
Processor_is_available(processor, answer) ==
    IF processor.kind = "PassThroughProcessor" THEN PassThroughProcessor_is_available
    ELSE LLMProcessor_is_available(answer)

\* processor.process(...) (dynamic dispatch)
Processor_process(processor, execution, reply) ==
    IF processor.kind = "FallbackProcessor"
    THEN FallbackProcessor_process(processor.wrapped, execution, reply)
    ELSE Inner_process(processor.kind, execution, reply)

\* ------------------------------------------------- processor construction
\* What an LLM processor is made of: the settings its client was created
\* with and the profile whose prompt templates it formats (NoProfile: the
\* fixed prompt written in LLMProcessor.process).
Binding(llm_settings, templates) == [llm_settings |-> llm_settings, templates |-> templates]
NoBinding == Binding(NoProfile.llm_settings, NoProfile)

\* OllamaLLMClient.create() without settings: model and base URL from the
\* environment, the client's own defaults for a variable that is unset or
\* blank.
OllamaLLMClient_create(environment) ==
    [model_name |-> IF environment.SHTYM_LLM_SETTINGS__MODEL \in {<<>>, <<"">>, <<"   ">>}
                    THEN "gpt-oss:20b"
                    ELSE environment.SHTYM_LLM_SETTINGS__MODEL[1],
     base_url |-> IF environment.SHTYM_LLM_SETTINGS__BASE_URL \in {<<>>, <<"">>, <<"   ">>}
                  THEN "http://localhost:11434"
                  ELSE environment.SHTYM_LLM_SETTINGS__BASE_URL[1]]

\* Result of building a processor.
\*   getLog      - the names profile_repository.get was called with
\*   resolution  - how profile_repository.get ended ("notcalled" if it was not)
\*   creation    - how the construction of the processor ended ("none": not tried)
\*   available   - what is_available() answered ("none": not asked)
\*   createCalls - calls of the processor / client factory's create
\*   escaped     - the exception that left the function ("none": it returned)
\*   bound       - what an LLM processor was built from (NoBinding: none built)
Built(getLog, get, creation, available, createCalls, availCalls, processor, escaped) ==
    [getLog |-> getLog, resolution |-> get.exc, errName |-> get.errName,
     profile |-> get.profile, queried |-> get.queried, insts |-> get.insts,
     creation |-> creation, available |-> available,
     createCalls |-> createCalls, availCalls |-> availCalls,
     processor |-> processor, escaped |-> escaped, bound |-> NoBinding]

\* A profile handed over by the caller instead of being looked up.
Given(profile, insts) ==
    [exc |-> "notcalled", errName |-> "", profile |-> profile,
     queried |-> <<>>, insts |-> insts]

\* ShtymApplication.create testing the bound method instead of calling it
\* ("if llm_client.is_available:"): the answer is asked for but not used.
ShtymApplication_create_ignores_answer(repositories, insts, profile_name, importOk, available, environment) ==
    LET get == MultiSourceProfileRepository_get(repositories, insts, profile_name)
        log == <<profile_name>>
    IN  IF get.exc = "ProfileNotFoundError"
        THEN Built(log, get, "none", "none", 0, 0, PassThroughProcessor, "none")
        ELSE IF get.exc # "none"
        THEN Built(log, get, "none", "none", 0, 0, NoProcessor, get.exc)
        ELSE IF ~importOk
        THEN Built(log, get, "ModuleNotFoundError", "none", 0, 0,
                   PassThroughProcessor, "none")
        ELSE Built(log, get, "ok", IF available THEN "true" ELSE "false", 1, 1,
                   LLMProcessor, "none")

\* ShtymApplication.create whose handler of ProfileNotFoundError does not
\* return: the lookup failure falls through to the LLM logic.
ShtymApplication_create_fallthrough(repositories, insts, profile_name, importOk, available, environment) ==
    LET get == MultiSourceProfileRepository_get(repositories, insts, profile_name)
        log == <<profile_name>>
    IN  IF get.exc \notin {"none", "ProfileNotFoundError"}
        THEN Built(log, get, "none", "none", 0, 0, NoProcessor, get.exc)
        ELSE IF ~importOk
        THEN Built(log, get, "ModuleNotFoundError", "none", 0, 0,
                   PassThroughProcessor, "none")
        ELSE IF available
        THEN Built(log, get, "ok", "true", 1, 1, LLMProcessor, "none")
        ELSE Built(log, get, "ok", "false", 1, 1, PassThroughProcessor, "none")

\* ShtymApplication.create without the "except ModuleNotFoundError" clause:
\* the failed import of the client module leaves create.
ShtymApplication_create_import_escapes(repositories, insts, profile_name, importOk, available, environment) ==
    LET get == MultiSourceProfileRepository_get(repositories, insts, profile_name)
        log == <<profile_name>>
    IN  IF get.exc = "ProfileNotFoundError"
        THEN Built(log, get, "none", "none", 0, 0, PassThroughProcessor, "none")
        ELSE IF get.exc # "none"
        THEN Built(log, get, "none", "none", 0, 0, NoProcessor, get.exc)
        ELSE IF ~importOk
        THEN Built(log, get, "ModuleNotFoundError", "none", 0, 0,
                   NoProcessor, "ModuleNotFoundError")
        ELSE IF available
        THEN [Built(log, get, "ok", "true", 1, 1, LLMProcessor, "none")
                 EXCEPT !.bound = Binding(OllamaLLMClient_create(environment), NoProfile)]
        ELSE Built(log, get, "ok", "false", 1, 1, PassThroughProcessor, "none")

\* ShtymApplication.create(profile_repository, profile_name).
\*   importOk  - the optional ollama client module can be imported
\*   available - what llm_client.is_available() answers
\* The profile that get returned is dropped: the client is created without
\* settings and LLMProcessor gets the client only.
ShtymApplication_create(repositories, insts, profile_name, importOk, available, environment) ==
    LET get == MultiSourceProfileRepository_get(repositories, insts, profile_name)
        log == <<profile_name>>
    IN  IF get.exc = "ProfileNotFoundError"
        THEN Built(log, get, "none", "none", 0, 0, PassThroughProcessor, "none")
        ELSE IF get.exc # "none"
        THEN Built(log, get, "none", "none", 0, 0, NoProcessor, get.exc)
        ELSE IF ~importOk
        THEN Built(log, get, "ModuleNotFoundError", "none", 0, 0,
                   PassThroughProcessor, "none")
        ELSE IF available
        THEN [Built(log, get, "ok", "true", 1, 1, LLMProcessor, "none")
                 EXCEPT !.bound = Binding(OllamaLLMClient_create(environment), NoProfile)]
        ELSE Built(log, get, "ok", "false", 1, 1, PassThroughProcessor, "none")

\* The classes a profile and its settings may be of; the first of each is
\* the one the factories have an implementation for.
ProfileTypes == {"LLMProfile", "UnsupportedProfile"}
SettingsTypes == {"OllamaLLMClientSettings", "UnsupportedSettings"}

\* LLMClientFactory.create that hands the client back without asking
\* whether it is available.
LLMClientFactory_create_unchecked(settings_type, client_available) ==
    IF settings_type # "OllamaLLMClientSettings"
    THEN [exc |-> "ProcessorCreationError", names |-> settings_type,
          clientCalls |-> 0, availCalls |-> 0]
    ELSE [exc |-> "none", names |-> "", clientCalls |-> 1, availCalls |-> 0]

\* LLMClientFactory.create for an unsupported settings class falling into
\* the lookup of the client module: the failure is not a creation error.
LLMClientFactory_create_unkeyed(settings_type, client_available) ==
    IF settings_type # "OllamaLLMClientSettings"
    THEN [exc |-> "KeyError", names |-> settings_type,
          clientCalls |-> 0, availCalls |-> 0]
    ELSE IF ~client_available
    THEN [exc |-> "ProcessorCreationError", names |-> settings_type,
          clientCalls |-> 1, availCalls |-> 1]
    ELSE [exc |-> "none", names |-> "", clientCalls |-> 1, availCalls |-> 1]

\* LLMClientFactory.create(settings): the client of the settings' class,
\* asked once whether it is available.  `names` is the class the error
\* message names.
\*   client_available - what the new client's is_available() answers
LLMClientFactory_create(settings_type, client_available) ==
    IF settings_type # "OllamaLLMClientSettings"
    THEN [exc |-> "ProcessorCreationError", names |-> settings_type,
          clientCalls |-> 0, availCalls |-> 0]
    ELSE IF ~client_available
    THEN [exc |-> "ProcessorCreationError", names |-> settings_type,
          clientCalls |-> 1, availCalls |-> 1]
    ELSE [exc |-> "none", names |-> "", clientCalls |-> 1, availCalls |-> 1]

\* The record of a ProcessorFactory.create call: what it was given, how it
\* ended and what it returned.
FactoryCall(profile_type, settings_type, client_available, r, processor) ==
    [called |-> TRUE, profile_type |-> profile_type, settings_type |-> settings_type,
     client_available |-> client_available, exc |-> r.exc, names |-> r.names,
     clientCalls |-> r.clientCalls, availCalls |-> r.availCalls, processor |-> processor]
NoFactoryCall ==
    [called |-> FALSE, profile_type |-> "", settings_type |-> "",
     client_available |-> FALSE, exc |-> "none", names |-> "",
     clientCalls |-> 0, availCalls |-> 0, processor |-> NoProcessor]

\* ProcessorFactory.create(profile): for an LLMProfile the processor over
\* the client of its llm_settings; ProcessorCreationError for any other
\* profile class and for every failure of the client factory.
ProcessorFactory_create(profile_type, settings_type, client_available) ==
    IF profile_type # "LLMProfile"
    THEN FactoryCall(profile_type, settings_type, client_available,
                     [exc |-> "ProcessorCreationError", names |-> profile_type,
                      clientCalls |-> 0, availCalls |-> 0],
                     NoProcessor)
    ELSE LET c == LLMClientFactory_create(settings_type, client_available)
         IN  FactoryCall(profile_type, settings_type, client_available, c,
                         IF c.exc = "none" THEN CreatedProcessor ELSE NoProcessor)

\* create_processor_with_fallback without the except clause.
create_processor_with_fallback_raises(log, got, outcome, available) ==
    IF outcome # "ok"
    THEN Built(log, got, outcome, "none", 1, 0, NoProcessor, outcome)
    ELSE IF available
    THEN Built(log, got, "ok", "true", 1, 1, FallbackProcessor(CreatedProcessor), "none")
    ELSE Built(log, got, "ok", "false", 1, 1, PassThroughProcessor, "none")

\* create_processor_with_fallback returning the built processor as it is.
create_processor_with_fallback_bare(log, got, outcome, available) ==
    IF outcome = "ProcessorCreationError"
    THEN Built(log, got, outcome, "none", 1, 0, PassThroughProcessor, "none")
    ELSE IF outcome # "ok"
    THEN Built(log, got, outcome, "none", 1, 0, NoProcessor, outcome)
    ELSE IF available
    THEN Built(log, got, "ok", "true", 1, 1, CreatedProcessor, "none")
    ELSE Built(log, got, "ok", "false", 1, 1, PassThroughProcessor, "none")

\* create_processor_with_fallback(profile, processor_factory); `got` is the
\* profile and how the caller came by it.
\*   outcome   - how processor_factory.create(profile) ends
\*   available - what the built processor's is_available() answers
create_processor_with_fallback(log, got, outcome, available) ==
    IF outcome = "ProcessorCreationError"
    THEN Built(log, got, outcome, "none", 1, 0, PassThroughProcessor, "none")
    ELSE IF outcome # "ok"
    THEN Built(log, got, outcome, "none", 1, 0, NoProcessor, outcome)
    ELSE IF available
    THEN [Built(log, got, "ok", "true", 1, 1, FallbackProcessor(CreatedProcessor), "none")
             EXCEPT !.bound = Binding(got.profile.llm_settings, got.profile)]
    ELSE Built(log, got, "ok", "false", 1, 1, PassThroughProcessor, "none")

\* create_processor_from_profile_name(profile_name, profile_repository,
\* processor_factory)
create_processor_from_profile_name(repositories, insts, profile_name, outcome, available) ==
    LET get == MultiSourceProfileRepository_get(repositories, insts, profile_name)
        log == <<profile_name>>
    IN  IF get.exc = "ProfileNotFoundError"
        THEN Built(log, get, "none", "none", 0, 0, PassThroughProcessor, "none")
        ELSE IF get.exc # "none"
        THEN Built(log, get, "none", "none", 0, 0, NoProcessor, get.exc)
        ELSE create_processor_with_fallback(log, get, outcome, available)

\* ---------------------------------------------------------------- dispatch
\* process_command that reports success whenever the processor returned.
process_command_zero(processor, command, child, reply) ==
    LET r == Processor_process(processor,
                               CommandExecution(command, child.stdout, child.stderr),
                               reply)
    IN  [escaped |-> r.exc,
         processed_output |-> IF r.exc = "none" THEN r.output ELSE "",
         stderr |-> child.stderr,
         returncode |-> 0,
         chatCalls |-> r.chatCalls, processCalls |-> r.processCalls,
         runCalls |-> 1, ran |-> <<command>>,
         executions |-> <<CommandExecution(command, child.stdout, child.stderr)>>,
         chat |-> r.chat, raised |-> r.raised]

\* process_command that keeps nothing of the child's stderr.
process_command_drops_stderr(processor, command, child, reply) ==
    LET r == Processor_process(processor,
                               CommandExecution(command, child.stdout, child.stderr),
                               reply)
    IN  [escaped |-> r.exc,
         processed_output |-> IF r.exc = "none" THEN r.output ELSE "",
         stderr |-> "",
         returncode |-> child.returncode,
         chatCalls |-> r.chatCalls, processCalls |-> r.processCalls,
         runCalls |-> 1, ran |-> <<command>>,
         executions |-> <<CommandExecution(command, child.stdout, child.stderr)>>,
         chat |-> r.chat, raised |-> r.raised]

\* process_command that hands the processor the two streams the wrong way
\* round.
process_command_swaps_streams(processor, command, child, reply) ==
    LET r == Processor_process(processor,
                               CommandExecution(command, child.stderr, child.stdout),
                               reply)
    IN  [escaped |-> r.exc,
         processed_output |-> IF r.exc = "none" THEN r.output ELSE "",
         stderr |-> child.stderr,
         returncode |-> child.returncode,
         chatCalls |-> r.chatCalls, processCalls |-> r.processCalls,
         runCalls |-> 1, ran |-> <<command>>,
         executions |-> <<CommandExecution(command, child.stderr, child.stdout)>>,
         chat |-> r.chat, raised |-> r.raised]

\* ShtymApplication.process_command: run the child, hand its output to the
\* processor, return ProcessedCommandResult(processed_output, stderr,
\* returncode).  `child` is what run_command returns; ran lists the argv of
\* each run_command call, executions the arguments of each call of the
\* processor's process.
process_command(processor, command, child, reply) ==
    LET r == Processor_process(processor,
                               CommandExecution(command, child.stdout, child.stderr),
                               reply)
    IN  [escaped |-> r.exc,
         processed_output |-> IF r.exc = "none" THEN r.output ELSE "",
         stderr |-> child.stderr,
         returncode |-> child.returncode,
         chatCalls |-> r.chatCalls, processCalls |-> r.processCalls,
         runCalls |-> 1, ran |-> <<command>>,
         executions |-> <<CommandExecution(command, child.stdout, child.stderr)>>,
         chat |-> r.chat, raised |-> r.raised]

\* --------------------------------------------------------------------- cli
\* PassThroughFilter.filter
PassThroughFilter_filter(text) == text

\* What one run of cli.main did.
\*   helpCalls    - calls of parser.print_help
\*   createCalls  - calls of ShtymApplication.create
\*   resolved     - the profile names looked up, in order
\*   processCalls - calls of process_command
\*   stdoutWrites, stderrWrites - the texts written to each stream, in order
\*   exitCalls, exitCode - calls of sys.exit and the status given (0 when
\*                  main returns without calling it)
NoMain ==
    [started |-> FALSE, subcommand |-> "none", command |-> <<>>,
     helpCalls |-> 0, createCalls |-> 0, resolved |-> <<>>, processCalls |-> 0,
     stdoutWrites |-> <<>>, stderrWrites |-> <<>>, exitCalls |-> 0, exitCode |-> 0]

\* cli.main with sys.argv parsed to (subcommand, command); `child` is what
\* running the command gives.  Only `run` with a non-empty command does
\* anything: the command's stdout goes through a PassThroughFilter and is
\* written to stdout, and the process exits with the child's return code.
\* In every other case main returns.
main(subcommand, command, child) ==
    IF subcommand = "run" /\ command # <<>>
    THEN [NoMain EXCEPT !.started = TRUE, !.subcommand = subcommand, !.command = command,
                        !.processCalls = 1,
                        !.stdoutWrites = <<PassThroughFilter_filter(child.stdout)>>,
                        !.exitCalls = 1, !.exitCode = child.returncode]
    ELSE [NoMain EXCEPT !.started = TRUE, !.subcommand = subcommand, !.command = command]

\* The subcommands argparse may leave in args.subcommand (None: "none").
Subcommands == {"none", "run"}

\* ------------------------------------------------------------------ inputs
\* Every list of 1..n repositories.
RECURSIVE RepositoryLists(_)
RepositoryLists(n) ==
    IF n = 0 THEN {<<>>}
    ELSE LET shorter == RepositoryLists(n - 1)
         IN  shorter \cup {Append(l, r) : l \in {x \in shorter : Len(x) = n - 1},
                                          r \in Repositories}

\* ProfileRepositoryFactory.create: project-local file, user config file,
\* built-in default, in that order.
ProfileRepositoryFactory_create(project, user) ==
    << [kind |-> "file", file |-> project],
       [kind |-> "file", file |-> user],
       BuiltinRepository >>

\* Every state of the two configuration files under the default wiring.
DefaultWirings == {ProfileRepositoryFactory_create(p, u) : p, u \in FileStates}

Commands == {<<"echo", "hello">>, <<"false">>}
\* What subprocess.run may return for a command.
Children == [stdout : {"", "hello", "line 1\nline 2\n"}, stderr : {"", "err"},
             returncode : {0, 1}]
\* What the LLM call behind a processor may do: answer a text or raise.
Replies ==
    {[ok |-> TRUE, text |-> "summary", exc |-> "none"]}
        \cup {[ok |-> FALSE, text |-> "", exc |-> x] : x \in {"ConnectionError", "RuntimeError"}}
\* Profiles a caller may pass to create_processor_with_fallback.
GivenProfiles == {ParsedProfile(1, n) : n \in FileNames}

\* ------------------------------------------------------------------- state
VARIABLES
    repositories,   \* MultiSourceProfileRepository.repositories
    insts,          \* per repository instance: _profiles cache, read/parse counts
    pc,             \* "start", "getting", "built", "crashed", "done", "asked", "exited"
    gets,           \* the results of the get calls of a series, in order
    via,            \* the entry point that built the processor
    profile_name,   \* the profile name the entry point was given
    built,          \* the result of building the processor
    command,        \* argv given to process_command
    child,          \* what run_command returned
    result,         \* what process_command returned
    environment,    \* os.environ of the process
    made,           \* the profiles LLMProfile.from_env has built, in order
    factory,        \* the ProcessorFactory.create call of the entry point
    availability,   \* what processor.is_available() answered ("unasked" before)
    cli             \* what cli.main did

vars == <<repositories, insts, pc, gets, via, profile_name, built, command, child, result,
          environment, made, factory, availability, cli>>

NoChild == [stdout |-> "", stderr |-> "", returncode |-> 0]
NoResult ==
    [escaped |-> "none", processed_output |-> "", stderr |-> "", returncode |-> 0,
     chatCalls |-> 0, processCalls |-> 0, runCalls |-> 0, ran |-> <<>>,
     executions |-> <<>>, chat |-> <<>>, raised |-> NoRaise, processing |-> "none",
     chatRaised |-> "none"]

\* The state after construction, for a repository list among `lists` and
\* a process environment among `environments`.
Start(lists, environments) ==
    /\ repositories \in lists
    /\ environment \in environments
    /\ made = <<>>
    /\ factory = NoFactoryCall
    /\ availability = "unasked"
    /\ cli = NoMain
    /\ insts = [k \in 1..Len(repositories) |-> FreshInstance]
    /\ pc = "start"
    /\ gets = <<>>
    /\ via = "none"
    /\ profile_name = ""
    /\ built = Built(<<>>, Given(NoProfile, insts), "none", "none", 0, 0,
                     NoProcessor, "none")
    /\ command = <<>>
    /\ child = NoChild
    /\ result = NoResult

\* Any non-empty repository list or the default wiring; no variable set.
Init == Start((RepositoryLists(MaxSources) \ {<<>>}) \cup DefaultWirings, {NoEnvironment})

\* The built-in source alone or the default wiring, under any environment.
InitEnv == Start({<<BuiltinRepository>>} \cup DefaultWirings, Environments)

\* ----------------------------------------------------------------- actions
\* profile_repository.get(name), one call of a series on the same object.
Get(name) ==
    /\ pc \in {"start", "getting"}
    /\ Len(gets) < MaxGets
    /\ LET r == MultiSourceProfileRepository_get(repositories, insts, name)
       IN  /\ insts' = r.insts
           /\ gets' = Append(gets, [name |-> name, exc |-> r.exc, errName |-> r.errName,
                                    profile |-> r.profile, queried |-> r.queried])
    /\ pc' = "getting"
    /\ UNCHANGED <<repositories, via, profile_name, built, command, child, result,
                   environment, made, factory, availability, cli>>

Finish(entry, name, b, f) ==
    /\ via' = entry
    /\ profile_name' = name
    /\ built' = b
    /\ factory' = IF b.createCalls > 0 THEN f ELSE NoFactoryCall
    /\ insts' = b.insts
    /\ pc' = IF b.escaped = "none" THEN "built" ELSE "crashed"
    /\ UNCHANGED <<repositories, gets, command, child, result, environment, made,
                   availability, cli>>

\* ShtymApplication.create on a freshly constructed repository.
Create(name, importOk, available) ==
    /\ pc = "start"
    /\ Finish("ShtymApplication.create", name,
              ShtymApplication_create(repositories, insts, name, importOk, available,
                                      environment),
              NoFactoryCall)

\* How a ProcessorFactory.create call ended, as its caller sees it.
Outcome(f) == IF f.exc = "none" THEN "ok" ELSE f.exc

\* create_processor_from_profile_name on a freshly constructed repository,
\* with the processor factory; a profile out of a repository is an
\* LLMProfile.
CreateFromProfileName(name, client_available, available) ==
    /\ pc = "start"
    /\ LET f == ProcessorFactory_create("LLMProfile", "OllamaLLMClientSettings",
                                        client_available)
       IN  Finish("create_processor_from_profile_name", name,
                  create_processor_from_profile_name(repositories, insts, name,
                                                     Outcome(f), available),
                  f)

\* create_processor_with_fallback with a profile the caller holds and the
\* processor factory.
CreateWithFallback(profile, profile_type, settings_type, client_available, available) ==
    /\ pc = "start"
    /\ LET f == ProcessorFactory_create(profile_type, settings_type, client_available)
       IN  Finish("create_processor_with_fallback", profile.name,
                  create_processor_with_fallback(<<>>, Given(profile, insts),
                                                 Outcome(f), available),
                  f)

\* ShtymApplication(processor).process_command(cmd)
ProcessCommand(cmd, ran, reply) ==
    /\ pc = "built"
    /\ LET r == process_command(built.processor, cmd, ran, reply)
       IN  /\ result' = [escaped |-> r.escaped, processed_output |-> r.processed_output,
                         stderr |-> r.stderr, returncode |-> r.returncode,
                         chatCalls |-> r.chatCalls, processCalls |-> r.processCalls,
                         runCalls |-> r.runCalls, ran |-> r.ran,
                         executions |-> r.executions, chat |-> r.chat,
                         raised |-> r.raised,
                         processing |-> IF r.chatCalls = 0 THEN "none"
                                        ELSE IF reply.ok THEN "ok" ELSE "failed",
                         chatRaised |-> IF r.chatCalls = 0 THEN "none" ELSE reply.exc]
           /\ pc' = IF r.escaped = "none" THEN "done" ELSE "crashed"
    /\ command' = cmd
    /\ child' = ran
    /\ UNCHANGED <<repositories, insts, gets, via, profile_name, built, environment, made,
                   factory, availability, cli>>

\* processor.is_available() on the processor of the application.
IsAvailable(answer) ==
    /\ pc = "built"
    /\ availability' = Processor_is_available(built.processor, answer)
    /\ pc' = "asked"
    /\ UNCHANGED <<repositories, insts, gets, via, profile_name, built, command, child,
                   result, environment, made, factory, cli>>

\* One run of the command-line tool.
Main(subcommand, cmd, ran) ==
    /\ pc = "start"
    /\ cli' = main(subcommand, cmd, ran)
    /\ command' = cmd
    /\ child' = IF cli'.processCalls > 0 THEN ran ELSE child
    /\ pc' = "exited"
    /\ UNCHANGED <<repositories, insts, gets, via, profile_name, built, result,
                   environment, made, factory, availability>>

\* LLMProfile.from_env(), called once by the process.
FromEnv ==
    /\ made = <<>>
    /\ made' = <<LLMProfile_from_env(environment)>>
    /\ UNCHANGED <<repositories, insts, pc, gets, via, profile_name, built, command,
                   child, result, environment, factory, availability, cli>>

Next ==
    \/ \E name \in Names : Get(name)
    \/ \E name \in Names, importOk \in BOOLEAN, available \in BOOLEAN :
          Create(name, importOk, available)
    \/ \E name \in Names, client_available \in BOOLEAN, available \in BOOLEAN :
          CreateFromProfileName(name, client_available, available)
    \/ \E profile \in GivenProfiles, profile_type \in ProfileTypes,
          settings_type \in SettingsTypes,
          client_available \in BOOLEAN, available \in BOOLEAN :
          CreateWithFallback(profile, profile_type, settings_type, client_available,
                             available)
    \/ \E cmd \in Commands, ran \in Children, reply \in Replies :
          ProcessCommand(cmd, ran, reply)
    \/ \E answer \in BOOLEAN : IsAvailable(answer)
    \/ \E subcommand \in Subcommands, cmd \in Commands \cup {<<>>}, ran \in Children :
          Main(subcommand, cmd, ran)

Spec == Init /\ [][Next]_vars

\* One file-based repository, or the default wiring, over every document.
InitParser ==
    Start({<<[kind |-> "file", file |-> d]>> : d \in Documents}
              \cup {ProfileRepositoryFactory_create(p, u) : p, u \in Documents},
          {NoEnvironment})

NextParser == \E name \in Names : Get(name)

\* Profile lookups over every way a document can be flawed.
SpecParser == InitParser /\ [][NextParser]_vars

\* Profile lookups and from_env under every environment.
NextEnv ==
    \/ \E name \in Names : Get(name)
    \/ FromEnv

SpecEnv == InitEnv /\ [][NextEnv]_vars

\* ================================================================== claims
Entered == via # "none"
ViaFunctions == {"create_processor_from_profile_name", "create_processor_with_fallback"}
Looked == via \in {"ShtymApplication.create", "create_processor_from_profile_name"}

\* The stages of the pipeline and their failures.
ResolutionFailed == built.resolution = "ProfileNotFoundError"
CreationFailed == built.creation \in {"ProcessorCreationError", "ModuleNotFoundError"}
Unavailable == built.available = "false"
ProcessingFailed == result.processing = "failed"
AnyStageFailed == ResolutionFailed \/ CreationFailed \/ Unavailable \/ ProcessingFailed

\* C1: for every combination of the stage outcomes resolution (found / not
\* found), creation (ok / creation error), availability (true / false) and
\* processing (ok / failure) the pipeline yields a string, no exception
\* leaves it, and whenever one of the stages failed the string is the
\* child's raw stdout.
C1_PipelineDegradesToStdout ==
    (Entered /\ built.resolution \in {"none", "notcalled", "ProfileNotFoundError"})
        => /\ built.escaped = "none"
           /\ pc \in {"built", "done", "asked"}
           /\ built.processor # NoProcessor
           /\ result.escaped = "none"
           /\ (pc = "done" /\ AnyStageFailed)
                  => result.processed_output = child.stdout

C1_Witness ==
    /\ pc = "done"
    /\ via = "ShtymApplication.create"
    /\ built.processor = LLMProcessor
    /\ ProcessingFailed
    /\ child.stdout = "hello"
    /\ result.processed_output = "hello"

\* C2: when profile_repository.get(name) raises ProfileNotFoundError the
\* result is a PassThroughProcessor, the repository was asked exactly once,
\* with that name, and no processor was constructed (create never called).
C2_NotFoundGivesPassThrough ==
    (Looked /\ built.resolution = "ProfileNotFoundError")
        => /\ built.processor = PassThroughProcessor
           /\ built.getLog = <<profile_name>>
           /\ built.createCalls = 0
           /\ built.availCalls = 0
           /\ built.escaped = "none"

C2_Witness ==
    /\ via = "ShtymApplication.create"
    /\ profile_name = "nonexistent"
    /\ built.resolution = "ProfileNotFoundError"
    /\ built.processor = PassThroughProcessor
    /\ built.getLog = <<"nonexistent">>

\* C8: the return code in the result of process_command equals the child
\* command's exit code, whichever processor was selected and whichever
\* stage failed.
C8_ReturnCodeMirrorsChild ==
    pc = "done" => /\ result.runCalls = 1
                   /\ result.returncode = child.returncode

C8_Witness ==
    /\ pc = "done"
    /\ child.returncode = 1
    /\ result.returncode = 1
    /\ built.processor = LLMProcessor
    /\ ProcessingFailed

\* C3: when processor_factory.create(profile) fails with
\* ProcessorCreationError, create_processor_with_fallback returns a
\* PassThroughProcessor after that single create call; nothing is raised.
C3_CreationErrorGivesPassThrough ==
    (via \in ViaFunctions /\ built.creation = "ProcessorCreationError")
        => /\ built.processor = PassThroughProcessor
           /\ built.createCalls = 1
           /\ built.availCalls = 0
           /\ built.escaped = "none"
           /\ pc # "crashed"

C3_Witness ==
    /\ via = "create_processor_with_fallback"
    /\ built.creation = "ProcessorCreationError"
    /\ built.createCalls = 1
    /\ built.processor = PassThroughProcessor

\* C4: when the built processor answers is_available() with false the result
\* is a PassThroughProcessor, and is_available was called exactly once.
C4_UnavailableGivesPassThrough ==
    (Entered /\ built.available = "false")
        => /\ built.processor = PassThroughProcessor
           /\ built.availCalls = 1
           /\ built.createCalls = 1
           /\ built.escaped = "none"

C4_Witness ==
    /\ via = "create_processor_with_fallback"
    /\ built.creation = "ok"
    /\ built.available = "false"
    /\ built.availCalls = 1
    /\ built.processor = PassThroughProcessor

C6_EntryPointsTotal ==
    Entered => /\ built.escaped = "none"
               /\ built.processor # NoProcessor
               /\ pc # "crashed"

\* C7: when the wrapped processor's process raises ProcessingError,
\* FallbackProcessor.process returns the execution's raw stdout, having
\* invoked the wrapped processor exactly once.
C7_FallbackSubstitutesStdout ==
    (/\ pc \in {"done", "crashed"}
     /\ built.processor.kind = "FallbackProcessor"
     /\ ProcessingFailed)
        => /\ result.escaped = "none"
           /\ result.processed_output = child.stdout
           /\ result.processCalls = 1
           /\ result.chatCalls = 1

C7_Witness ==
    /\ pc = "done"
    /\ built.processor = FallbackProcessor(CreatedProcessor)
    /\ ProcessingFailed
    /\ child.stdout = "hello"
    /\ result.processed_output = "hello"
    /\ result.processCalls = 1

\* Every call of MultiSourceProfileRepository.get made so far: the calls of
\* a series and the lookup of an entry point.
GetCalls ==
    {gets[i] : i \in 1..Len(gets)}
        \cup (IF Looked
              THEN {[name |-> profile_name, exc |-> built.resolution,
                     errName |-> built.errName, profile |-> built.profile,
                     queried |-> built.queried]}
              ELSE {})

\* What the k-th repository's get does for a name, read off its kind and
\* the file behind it: return a profile, or raise ProfileNotFoundError.
Holds(k, name) ==
    \/ repositories[k].kind = "builtin" /\ name = "default"
    \/ /\ repositories[k].kind = "file"
       /\ repositories[k].file.state = "valid"
       /\ name \in repositories[k].file.names
Misses(k, name) ==
    \/ repositories[k].kind = "builtin" /\ name # "default"
    \/ /\ repositories[k].kind = "file"
       /\ repositories[k].file.state \in {"valid"} \cup Flaws
       /\ name \notin repositories[k].file.names

\* The first n repositories, each asked once for the name, in list order.
AskedInOrder(n, name) == [k \in 1..n |-> [repo |-> k, name |-> name]]

\* C9: get(name) asks the repositories strictly in list order and returns
\* the profile of the first one that succeeds; no repository after it is
\* asked.
C9_FirstSuccessInListOrder ==
    \A g \in GetCalls :
        /\ g.queried = AskedInOrder(Len(g.queried), g.name)
        /\ Len(g.queried) \in 1..Len(repositories)
        /\ g.exc = "none"
              => /\ g.profile.origin = Len(g.queried)
                 /\ g.profile.name = g.name
                 /\ Holds(g.profile.origin, g.name)
                 /\ \A j \in 1..(g.profile.origin - 1) : Misses(j, g.name)
        /\ \A k \in 1..Len(repositories) :
              (Holds(k, g.name) /\ \A j \in 1..(k - 1) : Misses(j, g.name))
                  => (g.exc = "none" /\ g.profile.origin = k)

C9_Witness ==
    \E g \in GetCalls :
        /\ Len(repositories) = 3
        /\ g.exc = "none"
        /\ g.profile.origin = 2
        /\ Len(g.queried) = 2
        /\ Holds(3, g.name)

\* C10: when every repository raises ProfileNotFoundError, get raises
\* ProfileNotFoundError carrying the requested name, after asking each
\* repository exactly once for that name.
C10_AllMissRaisesNotFound ==
    \A g \in GetCalls :
        (\A k \in 1..Len(repositories) : Misses(k, g.name))
            => /\ g.exc = "ProfileNotFoundError"
               /\ g.errName = g.name
               /\ g.queried = AskedInOrder(Len(repositories), g.name)

C10_Witness ==
    \E g \in GetCalls :
        /\ Len(repositories) = 3
        /\ \A k \in 1..3 : Misses(k, g.name)
        /\ repositories[3].kind = "builtin"
        /\ g.exc = "ProfileNotFoundError"
        /\ g.errName = "p"
        /\ Len(g.queried) = 3

\* The repository is the one ProfileRepositoryFactory.create builds:
\* 1 = project-local file, 2 = user configuration file, 3 = built-in.
IsDefaultWiring == repositories \in DefaultWirings
\* The k-th source defines the name: a file does when it is a valid document
\* with that name in its table, the built-in source defines "default".
Defines(k, name) == Holds(k, name)

\* C11: under the default wiring the priority is project-local file, then
\* user configuration file, then built-in: a get of a name that some source
\* defines returns the profile of the first source in that order that
\* defines it.
C11_DefaultWiringPriority ==
    IsDefaultWiring
        => \A g \in GetCalls : \A k \in 1..3 :
              (Defines(k, g.name) /\ \A j \in 1..(k - 1) : ~Defines(j, g.name))
                  => (g.exc = "none" /\ g.profile.origin = k /\ g.profile.name = g.name)

\* A name the user file and the built-in source define is asked for while
\* the project-local file does not exist.
C11_Witness ==
    /\ IsDefaultWiring
    /\ repositories[1].file.state = "missing"
    /\ \E g \in GetCalls : g.name = "default" /\ Defines(2, "default") /\ g.exc = "OSError"

\* C12: under the default wiring get("default") returns a profile whatever
\* the state of the two configuration files.
C12_DefaultAlwaysResolves ==
    IsDefaultWiring
        => \A g \in GetCalls : g.name = DEFAULT_PROFILE_NAME => g.exc = "none"

C12_Witness ==
    /\ IsDefaultWiring
    /\ repositories[1].file.state = "unreadable"
    /\ \E g \in GetCalls : g.name = DEFAULT_PROFILE_NAME /\ g.exc = "OSError"

\* Both configuration files are malformed or do not exist.
BothFilesBroken ==
    /\ IsDefaultWiring
    /\ \A k \in 1..2 : repositories[k].file.state \in {"malformed", "missing"}

\* C13: under the default wiring with both files malformed or missing, a
\* get of "default" returns the built-in profile and a get of any other
\* name raises ProfileNotFoundError, never a parser or file error.
C13_BrokenFilesOnlyNotFound ==
    BothFilesBroken
        => \A g \in GetCalls :
              IF g.name = DEFAULT_PROFILE_NAME
              THEN g.exc = "none" /\ g.profile.origin = 3
              ELSE g.exc = "ProfileNotFoundError" /\ g.errName = g.name

\* The malformed half of the case behaves as claimed, the missing half
\* does not.
C13_Witness ==
    /\ BothFilesBroken
    /\ repositories[1].file.state = "malformed"
    /\ repositories[2].file.state = "missing"
    /\ \E g \in GetCalls : g.name = "p" /\ g.exc = "OSError" /\ Len(g.queried) = 2

\* The repository is one FileBasedProfileRepository.
SingleFileRepository == Len(repositories) = 1 /\ repositories[1].kind = "file"
ReadFails == repositories[1].file.state \in {"missing", "unreadable"}
ParseFails == repositories[1].file.state = "malformed"

C15_LoadFailureAbsorbed ==
    (SingleFileRepository /\ (ReadFails \/ ParseFails))
        => /\ \A g \in GetCalls : g.exc = "ProfileNotFoundError" /\ g.errName = g.name
           /\ insts[1].reads > 0 => (insts[1].loaded /\ insts[1].profiles = {})

C15_Witness ==
    /\ SingleFileRepository
    /\ repositories[1].file.state = "unreadable"
    /\ Len(gets) = 2
    /\ \A i \in 1..2 : gets[i].exc = "OSError"

C17_ReadFailureIsFileReadError ==
    \A k \in 1..Len(repositories) :
        (repositories[k].kind = "file" /\ insts[k].readExc # "unread")
            => /\ insts[k].readExc # "OSError"
               /\ repositories[k].file.state \in {"missing", "unreadable"}
                     => insts[k].readExc = "FileReadError"

C17_Witness ==
    \E k \in 1..Len(repositories) :
        /\ repositories[k].kind = "file"
        /\ repositories[k].file.state = "missing"
        /\ insts[k].reads = 1
        /\ insts[k].readExc = "OSError"

\* C18: BuiltinDefaultProfileRepository.get returns a profile for exactly
\* the name "default" and raises ProfileNotFoundError carrying the
\* requested name for every other name.
C18_BuiltinServesExactlyDefault ==
    \A g \in GetCalls : \A k \in 1..Len(g.queried) :
        repositories[k].kind = "builtin"
            => IF g.name = "default"
               THEN /\ Len(g.queried) = k
                    /\ g.exc = "none"
                    /\ g.profile.origin = k
                    /\ g.profile.name = "default"
               ELSE /\ g.profile.origin # k
                    /\ k < Len(repositories) => Len(g.queried) > k
                    /\ k = Len(repositories)
                          => (g.exc = "ProfileNotFoundError" /\ g.errName = g.name)

C18_Witness ==
    /\ repositories = <<BuiltinRepository>>
    /\ Len(gets) = 2
    /\ gets[1].name = "default" /\ gets[1].exc = "none" /\ gets[1].profile.origin = 1
    /\ gets[2].name = "nonexistent"
    /\ gets[2].exc = "ProfileNotFoundError"
    /\ gets[2].errName = "nonexistent"

\* A get call that was answered by the built-in source.
AnsweredByBuiltin(g) ==
    g.exc = "none" /\ repositories[g.profile.origin].kind = "builtin"
\* A variable that is unset, empty or whitespace-only counts as not given.
IsBlank(value) == value \in {<<>>, <<"">>, <<"   ">>}
\* The setting a variable stands for: its value, the literal default when
\* it is not given.
FromVariable(value, default) == IF IsBlank(value) THEN default ELSE value[1]

\* C19: the llm_settings of the built-in default profile take the model
\* name from SHTYM_LLM_SETTINGS__MODEL and the base URL from
\* SHTYM_LLM_SETTINGS__BASE_URL when the variable is set to a non-blank
\* value, and the fixed literal default when it is unset, empty or
\* whitespace-only.
C19_BuiltinDefaultFollowsEnvironment ==
    \A g \in GetCalls :
        AnsweredByBuiltin(g)
            => /\ g.profile.llm_settings.model_name =
                     FromVariable(environment.SHTYM_LLM_SETTINGS__MODEL,
                                  LLMSettings.model_name)
               /\ g.profile.llm_settings.base_url =
                     FromVariable(environment.SHTYM_LLM_SETTINGS__BASE_URL,
                                  LLMSettings.base_url)

\* The model variable names a model and the built-in profile has the
\* literal one; from_env, which the built-in source does not call, hands a
\* whitespace-only base URL through.
C19_Witness ==
    /\ environment.SHTYM_LLM_SETTINGS__MODEL = <<"llama2">>
    /\ environment.SHTYM_LLM_SETTINGS__BASE_URL = <<"   ">>
    /\ \E g \in GetCalls :
          AnsweredByBuiltin(g) /\ g.profile.llm_settings.model_name = LLMSettings.model_name
    /\ made # <<>>
    /\ made[1].llm_settings = [model_name |-> "llama2", base_url |-> "   "]

\* The defaults the documentation gives for omitted llm_settings fields.
DocumentedDefaults == [model_name |-> "gpt-oss:20b", base_url |-> "http://localhost:11434"]
\* A returned profile whose llm_settings fields were all left out: the
\* built-in LLMProfile() and a file's [profiles.default] table.
SettingsOmitted(g) == g.exc = "none" /\ g.name = "default"

\* C20: an LLM profile whose llm_settings fields are omitted has
\* model_name "gpt-oss:20b" and base_url "http://localhost:11434".
C20_OmittedSettingsAreDocumentedDefaults ==
    \A g \in GetCalls : SettingsOmitted(g) => g.profile.llm_settings = DocumentedDefaults

C20_Witness ==
    \E g \in GetCalls :
        /\ SettingsOmitted(g)
        /\ AnsweredByBuiltin(g)
        /\ g.profile.llm_settings.model_name = "llama3.2:3b"
        /\ g.profile.llm_settings.base_url = DocumentedDefaults.base_url

\* An LLM processor (bare or wrapped) was built for a profile the lookup found.
BuiltForFoundProfile ==
    /\ Looked
    /\ built.resolution = "none"
    /\ built.processor.kind \in {"LLMProcessor", "FallbackProcessor"}

\* C21: when a named profile is found, the processor built for it is bound
\* to that profile: its client is created from the profile's llm_settings
\* and its prompt templates are the profile's, not process-wide defaults.
C21_ProcessorBoundToFoundProfile ==
    BuiltForFoundProfile
        => /\ built.bound.llm_settings = built.profile.llm_settings
           /\ built.bound.templates = built.profile

\* ShtymApplication.create finds profile "p" with its written-out settings
\* and builds an LLMProcessor on a client made without them.
C21_Witness ==
    /\ via = "ShtymApplication.create"
    /\ BuiltForFoundProfile
    /\ built.profile.name = "p"
    /\ built.profile.llm_settings = WrittenSettings
    /\ built.bound.llm_settings.model_name = "gpt-oss:20b"
    /\ built.bound.templates = NoProfile

\* C22: when the factory's create has constructed the client and the
\* client's is_available() answers false, create fails with
\* ProcessorCreationError and returns no processor.
C22_UnavailableClientFailsCreation ==
    (factory.called /\ factory.clientCalls = 1 /\ ~factory.client_available)
        => /\ factory.availCalls = 1
           /\ factory.exc = "ProcessorCreationError"
           /\ factory.processor = NoProcessor

C22_Witness ==
    /\ via = "create_processor_from_profile_name"
    /\ factory.called
    /\ factory.clientCalls = 1
    /\ ~factory.client_available
    /\ factory.exc = "ProcessorCreationError"
    /\ built.creation = "ProcessorCreationError"

\* The class the factory has no implementation for, if there is one.
UnsupportedType ==
    IF factory.profile_type # "LLMProfile" THEN factory.profile_type
    ELSE IF factory.settings_type # "OllamaLLMClientSettings" THEN factory.settings_type
    ELSE ""

\* C23: for a settings or profile type without an implementation, create
\* fails with ProcessorCreationError naming the unsupported type; no other
\* kind of exception is raised and no client is constructed.
C23_UnsupportedTypeFailsCreation ==
    (factory.called /\ UnsupportedType # "")
        => /\ factory.exc = "ProcessorCreationError"
           /\ factory.names = UnsupportedType
           /\ factory.processor = NoProcessor
           /\ factory.clientCalls = 0

C23_Witness ==
    /\ factory.called
    /\ factory.profile_type = "LLMProfile"
    /\ factory.settings_type = "UnsupportedSettings"
    /\ factory.exc = "ProcessorCreationError"
    /\ factory.names = "UnsupportedSettings"

\* An availability check of this run answered false: the one the entry
\* point made, or the one the client factory made.
ReportedUnavailable ==
    \/ built.available = "false"
    \/ factory.called /\ factory.availCalls = 1 /\ ~factory.client_available

\* C24: a chat call is made only in a step taken after an availability
\* check has answered true; when an availability check answered false no
\* chat request is ever made and the output is the raw stdout.
C24_ChatOnlyAfterAvailable ==
    /\ [][result'.chatCalls > result.chatCalls
             => (built.available = "true" /\ built.availCalls = 1 /\ ~ReportedUnavailable)]_vars
    /\ [](ReportedUnavailable
             => /\ result.chatCalls = 0
                /\ pc = "done" => result.processed_output = child.stdout)

C24_Witness ==
    /\ via = "ShtymApplication.create"
    /\ built.resolution = "none"
    /\ built.available = "false"
    /\ pc = "done"
    /\ child.stdout = "hello"
    /\ result.chatCalls = 0
    /\ result.processed_output = "hello"

\* C25: PassThroughProcessor.process returns the execution's stdout
\* unchanged for every command, stdout and stderr, the empty and the
\* multi-line stdout included, and PassThroughProcessor.is_available is
\* always true.
C25_PassThroughReturnsStdout ==
    built.processor = PassThroughProcessor
        => /\ pc = "done"
                 => /\ result.escaped = "none"
                    /\ result.processed_output = child.stdout
                    /\ result.chatCalls = 0
           /\ pc = "asked" => availability = TRUE

C25_Witness ==
    /\ built.processor = PassThroughProcessor
    /\ pc = "done"
    /\ child.stdout = "line 1\nline 2\n"
    /\ child.stderr = "err"
    /\ result.processed_output = "line 1\nline 2\n"

\* C26: process_command returns the child's stderr unchanged in its result
\* whatever the processor is and whatever it returns; of the result only
\* processed_output depends on the processor.
C26_StderrUnchanged ==
    pc = "done"
        => /\ result.stderr = child.stderr
           /\ result.returncode = child.returncode
           /\ result.runCalls = 1

\* An LLM processor replaced the output; the stderr is the child's.
C26_Witness ==
    /\ pc = "done"
    /\ built.processor = LLMProcessor
    /\ child = [stdout |-> "hello", stderr |-> "err", returncode |-> 1]
    /\ result.processed_output = "summary"
    /\ result.stderr = "err"

\* cli.main ran with the run subcommand and a command to execute.
RanCommand == cli.started /\ cli.subcommand = "run" /\ cli.command # <<>>

\* C27: cli.main invoked without a subcommand prints the help text once and
\* exits with status 1.
C27_NoSubcommandPrintsHelp ==
    (cli.started /\ cli.subcommand = "none")
        => /\ cli.helpCalls = 1
           /\ cli.exitCalls = 1
           /\ cli.exitCode = 1

\* main returns without printing anything and without calling sys.exit.
C27_Witness ==
    /\ cli.started
    /\ cli.subcommand = "none"
    /\ cli.helpCalls = 0
    /\ cli.exitCalls = 0
    /\ cli.stdoutWrites = <<>>

\* C28: cli.main with the run subcommand builds the application once,
\* processes the command once, writes the processed output to stdout
\* exactly once and the child's stderr to stderr exactly once, and exits
\* with the child's return code.
C28_RunWritesBothStreamsThenExits ==
    RanCommand
        => /\ cli.createCalls = 1
           /\ cli.processCalls = 1
           /\ Len(cli.stdoutWrites) = 1
           /\ cli.stderrWrites = <<child.stderr>>
           /\ cli.exitCalls = 1
           /\ cli.exitCode = child.returncode

\* The child wrote to stderr and main wrote nothing to it.
C28_Witness ==
    /\ RanCommand
    /\ child.stderr = "err"
    /\ cli.stdoutWrites = <<child.stdout>>
    /\ cli.stderrWrites = <<>>
    /\ cli.exitCode = child.returncode

\* C29: when run is invoked without a --profile argument the profile name
\* that is resolved is "default".
C29_RunResolvesDefaultProfile ==
    RanCommand => cli.resolved = <<DEFAULT_PROFILE_NAME>>

\* Under the default wiring the run asked no repository for any profile.
C29_Witness ==
    /\ RanCommand
    /\ IsDefaultWiring
    /\ cli.resolved = <<>>
    /\ cli.createCalls = 0
    /\ \A k \in 1..3 : insts[k] = FreshInstance

\* C30: TOMLProfileParser.parse fails with ProfileParserError, and with no
\* other exception, on each malformed input: a TOML syntax error, a missing
\* profiles table, a profiles entry that is not a table, a schema
\* validation failure such as an invalid base_url, and an unknown type.
C30_MalformedInputIsParserError ==
    \A k \in 1..Len(repositories) :
        (repositories[k].kind = "file" /\ insts[k].parses > 0)
            => /\ insts[k].parseExc \in {"none", "ProfileParserError"}
               /\ repositories[k].file.state \in Flaws
                     => insts[k].parseExc = "ProfileParserError"

C30_Witness ==
    /\ Len(repositories) = 3
    /\ repositories[1].file.state = "invalid_base_url"
    /\ repositories[2].file.state = "unknown_type"
    /\ \A k \in 1..2 : insts[k].parses = 1 /\ insts[k].parseExc = "ProfileParserError"

\* The repository is one FileBasedProfileRepository over a document whose
\* profiles table has no entries.
EmptyProfilesTable ==
    /\ SingleFileRepository
    /\ repositories[1].file = [state |-> "valid", names |-> {}]

ParsedFromFile(g) ==
    /\ g.exc = "none"
    /\ repositories[g.profile.origin].kind = "file"

Execution == result.executions[1]

\* C33: LLMProcessor.process substitutes $command (argv joined by single
\* spaces), $stdout and $stderr verbatim in both the system and the user
\* prompt template: the system prompt and the user prompt of every chat
\* call are the two templates with all three placeholders replaced.
C33_PlaceholdersInBothTemplates ==
    \A i \in 1..Len(result.chat) :
        /\ result.chat[i].system_prompt
               = Template_substitute(ProfileTemplates.system_prompt_template, Execution)
        /\ result.chat[i].user_prompt
               = Template_substitute(ProfileTemplates.user_prompt_template, Execution)

\* The LLMProcessor that ShtymApplication.create built sends the raw stdout
\* as the user prompt and the stderr outside both prompts.
C33_Witness ==
    /\ built.processor = LLMProcessor
    /\ Len(result.chat) = 1
    /\ Execution = CommandExecution(<<"echo", "hello">>, "hello", "err")
    /\ result.chat[1].user_prompt = "hello"
    /\ result.chat[1].error_message = "err"
    /\ result.chat[1].system_prompt = LLMProcessor_chat_kwargs(Execution).system_prompt

\* The application's processor is a FallbackProcessor and process_command
\* has run.
FallbackProcessed == built.processor.kind = "FallbackProcessor" /\ result.executions # <<>>
\* What the LLM call behind the processor did in that run.
ReplyOfRun ==
    {reply \in Replies : reply.ok = (result.processing = "ok") /\ reply.exc = result.chatRaised}

\* C34: FallbackProcessor.process returns the wrapped processor's result
\* unchanged whenever the wrapped processor succeeds; the raw stdout takes
\* its place only when the wrapped processor raised.
C34_FallbackKeepsWrappedResult ==
    FallbackProcessed
        => \A reply \in ReplyOfRun :
              LET w == Inner_process(built.processor.wrapped, Execution, reply)
              IN  /\ result.escaped = "none"
                  /\ result.processCalls = 1
                  /\ IF w.exc = "none"
                     THEN result.processed_output = w.output /\ result.raised = NoRaise
                     ELSE /\ result.processed_output = Execution.stdout
                          /\ result.raised.exc = "ProcessingError"

C34_Witness ==
    /\ FallbackProcessed
    /\ result.processing = "ok"
    /\ child.stdout = "hello"
    /\ result.processed_output = "summary"
    /\ result.raised = NoRaise

\* The application's processor is the LLMProcessor and process_command has
\* run.
LLMProcessed == built.processor = LLMProcessor /\ result.executions # <<>>

\* C35: LLMProcessor.process returns the raw stdout whenever the client's
\* chat raises, whatever the exception, having called chat exactly once;
\* it returns the chat result unchanged when chat succeeds.
C35_LLMProcessorSwallowsChatFailure ==
    LLMProcessed
        => /\ Len(result.chat) = 1
           /\ result.chatCalls = 1
           /\ result.escaped = "none"
           /\ \A reply \in ReplyOfRun :
                  result.processed_output
                      = IF reply.ok THEN reply.text ELSE Execution.stdout

C35_Witness ==
    /\ LLMProcessed
    /\ result.chatRaised = "RuntimeError"
    /\ Len(result.chat) = 1
    /\ child.stdout = "line 1\nline 2\n"
    /\ result.processed_output = "line 1\nline 2\n"

\* C36: any exception raised by the LLM client call during processing
\* leaves the LLM processor as a ProcessingError carrying the cause and the
\* failed CommandExecution, and that ProcessingError is caught only at the
\* FallbackProcessor boundary.
C36_ChatFailureIsProcessingError ==
    result.chatRaised # "none"
        => /\ result.raised = Raised("ProcessingError", result.chatRaised, Execution)
           /\ built.processor.kind = "FallbackProcessor"
           /\ result.escaped = "none"

\* The LLMProcessor that ShtymApplication.create built catches the
\* exception of the chat call itself: nothing is raised, no FallbackProcessor
\* is involved.
C36_Witness ==
    /\ LLMProcessed
    /\ result.chatRaised = "ConnectionError"
    /\ result.raised = NoRaise
    /\ built.processor.wrapped = "none"
    /\ result.processed_output = child.stdout

\* C37: process_command runs the child command exactly once and then calls
\* the processor's process exactly once, with the argv it was given and
\* the stdout and stderr captured from the child.
C37_OneRunOneProcessCall ==
    (pc \in {"done", "crashed"} /\ Entered /\ built.escaped = "none")
        => /\ result.runCalls = 1
           /\ result.ran = <<command>>
           /\ Len(result.executions) = 1
           /\ result.executions[1].command = command
           /\ result.executions[1].stdout = child.stdout
           /\ result.executions[1].stderr = child.stderr

C37_Witness ==
    /\ pc = "done"
    /\ built.processor = PassThroughProcessor
    /\ command = <<"echo", "hello">>
    /\ result.ran = << <<"echo", "hello">> >>
    /\ result.executions = <<CommandExecution(<<"echo", "hello">>, "hello", "err")>>

\* The k-th source is a file that does not exist or is not a profiles
\* document.
MissingOrMalformed(k) == repositories[k].file.state \in {"missing", "malformed"}

\* C38: degradation is per source.  Under the default wiring a missing or
\* malformed project-local file does not hide a profile that a valid user
\* file defines, and a malformed user file does not hide a profile of the
\* project-local file: the name resolves to the profile of the source that
\* defines it.
C38_BrokenSourceHidesNothing ==
    IsDefaultWiring
        => \A g \in GetCalls :
              /\ (MissingOrMalformed(1) /\ Defines(2, g.name))
                     => (g.exc = "none" /\ g.profile.origin = 2 /\ g.profile.name = g.name)
              /\ (repositories[2].file.state = "malformed" /\ Defines(1, g.name))
                     => (g.exc = "none" /\ g.profile.origin = 1 /\ g.profile.name = g.name)

\* The project-local file does not exist, the user file defines "p": the
\* get of "p" ends in the OS error of the first source, the user file is
\* never asked.
C38_Witness ==
    /\ IsDefaultWiring
    /\ repositories[1].file.state = "missing"
    /\ Defines(2, "p")
    /\ \E g \in GetCalls : g.name = "p" /\ g.exc = "OSError" /\ Len(g.queried) = 1

\* Some get so far has asked the k-th repository.
Asked(k) == \E g \in GetCalls : \E i \in 1..Len(g.queried) : g.queried[i].repo = k

\* C39: the memoized cache belongs to one repository instance.  An instance
\* that no get has asked is untouched, whatever was asked of the others;
\* a loaded instance caches the profiles of its own file; and each
\* instance reads its own file at most once.
C39_CachePerInstance ==
    \A k \in 1..Len(repositories) :
        repositories[k].kind = "file"
            => /\ ~Asked(k) => insts[k] = FreshInstance
               /\ insts[k].loaded
                      => insts[k].profiles = TOMLProfileParser_parse(repositories[k].file).profiles
               /\ insts[k].reads <= 1

\* Two gets under the default wiring: the project-local instance has loaded
\* its file once, the user instance, whose file does not exist, has read
\* twice and cached nothing.
C39_Witness ==
    /\ IsDefaultWiring
    /\ Len(gets) = 2
    /\ insts[1].loaded
    /\ insts[1].reads = 1
    /\ repositories[2].file.state = "missing"
    /\ insts[2].reads = 2
    /\ ~insts[2].loaded

\* ShtymApplication.create found the profile and the import of the LLM
\* client module raised ModuleNotFoundError.
ImportFailed ==
    /\ via = "ShtymApplication.create"
    /\ built.resolution = "none"
    /\ built.creation = "ModuleNotFoundError"

\* C40: when the profile is found but the LLM backend module cannot be
\* imported, ShtymApplication.create builds the application with a
\* PassThroughProcessor; no client is created, is_available is not asked
\* and no chat call is made by the application.
C40_ImportFailureGivesPassThrough ==
    ImportFailed
        => /\ built.escaped = "none"
           /\ pc # "crashed"
           /\ built.processor = PassThroughProcessor
           /\ built.createCalls = 0
           /\ built.availCalls = 0
           /\ built.available = "none"
           /\ built.bound = NoBinding
           /\ result.chatCalls = 0
           /\ result.chat = <<>>
           /\ pc = "done" => result.processed_output = child.stdout

C40_Witness ==
    /\ ImportFailed
    /\ built.profile.name = "p"
    /\ pc = "done"
    /\ child.stdout = "hello"
    /\ result.processed_output = "hello"
    /\ result.chat = <<>>
    /\ built.availCalls = 0

====
